---- MODULE Spec2Model ----
(***************************************************************************)
(* Automation cycle orchestrator of the social media automation system:    *)
(* AutomationService (cycle, news selection, post creation, publish retry),*)
(* Database (posts and processed_news tables), SocialMediaService (per     *)
(* platform rate limit and posting) and the manual trigger route.          *)
(*                                                                         *)
(* Every `await` of the JavaScript source is a suspension point, so one    *)
(* action of the model is the code that runs between two awaits.  Time is  *)
(* in milliseconds, as in the source.                                      *)
(***************************************************************************)
EXTENDS Integers, Sequences, FiniteSets, TLC

(* ---------------------------- bounds ---------------------------------- *)
\* number of invocations of runAutomationCycle that may be open at once
NumSlots == 2
\* cap on stats.totalRuns (the counter is unbounded in the program)
MaxRuns == 2

\* cap on the rows of table posts when the Database is driven directly
MaxRows == 3
\* cap on stats.totalRuns in the specifications of a single cycle
MaxLiveRuns == 1
\* hours the clock may advance when SocialMediaService is driven directly
MaxClockHours == 3

(* ----------------------- program constants ---------------------------- *)
maxRetries == 3
retryDelay == 60000
maxAttempts == 10
minInterval == 60 * 60 * 1000
platformDelay == 5000
\* MAX_POSTS_PER_DAY of the environment (the source defaults to 10)
maxPostsPerDay == 1
\* getRecentPosts(24): the trailing window of the daily quota, in hours
quotaHours == 24
HourMs == 60 * 60 * 1000

Cycles == 1..NumSlots
Platforms == {"facebook", "instagram"}
Urls == {"u1", "u2"}
\* contents the generator may return: two of them differ in both fields and
\* have the same concatenation shortCaption + longDescription
Contents ==
  {[shortCaption |-> <<"a">>, longDescription |-> <<"b", "c">>],
   [shortCaption |-> <<"a", "b">>, longDescription |-> <<"c">>],
   [shortCaption |-> <<"a">>, longDescription |-> <<"c">>]}

VARIABLES
  isRunning,      \* AutomationService.isRunning
  lastRunTime,    \* AutomationService.lastRunTime (-1 is null)
  stats,          \* AutomationService.stats
  posts,          \* rows of table posts, in id order (id = index)
  processedNews,  \* rows of table processed_news, in id order (news_url)
  lastPostTime,   \* SocialMediaService.lastPostTime
  mockMode,       \* NODE_ENV === 'development' || !FACEBOOK_ACCESS_TOKEN
  now,            \* Date.now(), relative to the start of the model's clock
  dbClosed,       \* Database.close() has closed the sqlite handle
  pc,             \* per invocation: the await it is suspended at
  loc,            \* per invocation: the local variables
  outcome,        \* per invocation: how the promise of its last call settled
  lastOp          \* the call that completed in the last step of a cycle, and
                  \* its result (history, for the properties only)

vars == <<isRunning, lastRunTime, stats, posts, processedNews, lastPostTime,
          mockMode, now, dbClosed, pc, loc, outcome, lastOp>>

Range(s) == {s[i] : i \in DOMAIN s}

NoResults == [p \in Platforms |-> "none"]

\* locals of one invocation before its first statement (attempts is the
\* local of getUniqueNewsItem and is dropped when that function returns)
InitLoc ==
  [attempts |-> 0, newsUrl |-> "", contentHash |-> <<>>, postId |-> 0,
   attempt |-> 0, results |-> NoResults,
   \* history of the invocation, for the properties only
   visited |-> {}, round |-> 0, thrown |-> 0, roundEnd |-> 0,
   okRound |-> [p \in Platforms |-> 0],
   callRound |-> [p \in Platforms |-> 0],
   apiRound |-> [p \in Platforms |-> 0],
   \* the counters and the table sizes when the invocation passed the guard
   entry |-> [stats |-> [totalRuns |-> 0, successfulPosts |-> 0,
                         failedPosts |-> 0, duplicatesSkipped |-> 0],
              posts |-> 0, processedNews |-> 0, today |-> 0],
   \* what the invocation worked on, kept when it has returned
   returned |-> [newsUrl |-> "", postId |-> 0, results |-> NoResults,
                 visited |-> {}, attempts |-> 0]]

Op(name, c, res) == [op |-> name, c |-> c, res |-> res]

Init ==
  /\ isRunning = FALSE
  /\ lastRunTime = -1
  /\ stats = [totalRuns |-> 0, successfulPosts |-> 0, failedPosts |-> 0,
              duplicatesSkipped |-> 0]
  /\ posts = <<>>
  /\ processedNews = <<>>
  /\ lastPostTime = [p \in Platforms |-> 0]
  /\ mockMode \in BOOLEAN
  /\ now = minInterval
  /\ dbClosed = FALSE
  /\ pc = [c \in Cycles |-> "idle"]
  /\ loc = [c \in Cycles |-> InitLoc]
  /\ outcome = [c \in Cycles |-> "none"]
  /\ lastOp = Op("init", 0, "")

(* ----------------------------- Database ------------------------------- *)
\* the ledger read that finds no row
isNewsProcessedNever(newsUrl) == FALSE

isNewsProcessed(newsUrl) == \E i \in DOMAIN processedNews : processedNews[i] = newsUrl

\* the lookup that finds no row
isContentDuplicateNever(contentHash) == FALSE

\* SELECT id FROM posts WHERE content_hash = ?
isContentDuplicate(contentHash) ==
  \E i \in DOMAIN posts : posts[i].contentHash = contentHash

\* the table without the UNIQUE constraint
NoUniqueConstraint(contentHash) == FALSE

\* UNIQUE constraint of posts.content_hash
UniqueViolation(contentHash) ==
  \E i \in DOMAIN posts : posts[i].contentHash = contentHash

\* the table whose rows start as published
DefaultStatusPublished == "published"

\* part_000 line 40: status TEXT DEFAULT 'pending'
DefaultStatus == "pending"

\* the row INSERT INTO posts creates: status and posted_at take their defaults
NewPostRow(newsUrl, contentHash) ==
  [newsUrl |-> newsUrl, contentHash |-> contentHash, status |-> DefaultStatus,
   postedAt |-> now]

\* the UPDATE that matches no row
WithStatusNoRow(id, status) == posts

\* UPDATE posts SET status = ? WHERE id = ?
WithStatus(id, status) ==
  [i \in DOMAIN posts |-> IF i = id THEN [posts[i] EXCEPT !.status = status]
                                     ELSE posts[i]]

\* the insert without OR IGNORE and without the UNIQUE constraint
InsertAlways(newsUrl) == Append(processedNews, newsUrl)

\* INSERT OR IGNORE INTO processed_news
InsertOrIgnore(newsUrl) ==
  IF newsUrl \in Range(processedNews) THEN processedNews
  ELSE Append(processedNews, newsUrl)

\* SELECT * FROM posts WHERE posted_at > datetime('now', '-hours hours')
getRecentPosts(hours) ==
  {i \in DOMAIN posts : posts[i].postedAt > now - hours * HourMs}

getTodayPostCount == Cardinality(getRecentPosts(quotaHours))

(* ------------------------ SocialMediaService -------------------------- *)
\* the rate limiter that refuses nothing
canPostAlways(platform) == TRUE

\* part_006 lines 173-177
canPost(platform) == now - lastPostTime[platform] >= minInterval

(* ------------------------- AutomationService -------------------------- *)
\* crypto md5 digest, taken as injective on its input
generateContentHash(content) == <<"md5">> \o content

\* the guard that lets every call through
GuardNeverBlocks == FALSE

\* line 76: the entry guard
GuardBlocks == isRunning

\* the entry that leaves the running flag as it was
EntryFlagNotSet == isRunning

\* line 81: the value the running flag gets on entry
EntryFlag == TRUE

\* the return that leaves the running flag as it was
FinallyFlagNotCleared == isRunning

\* line 117: the value the running flag gets in the finally block
FinallyFlag == FALSE

\* the status update that leaves the row as it was inserted
AggregateStatusPending(results) == DefaultStatus

\* lines 190-191: the status written after publishing
AggregateStatus(results) ==
  IF \A p \in Platforms : results[p] = "ok" THEN "published"
  ELSE "partial_failure"

\* line 190
AllSuccessful(results) == \A p \in Platforms : results[p] = "ok"

\* the success that is counted as a failure as well
SucceededAndFailed(s) ==
  [s EXCEPT !.successfulPosts = @ + 1, !.failedPosts = @ + 1]

\* line 107
Succeeded(s) == [s EXCEPT !.successfulPosts = @ + 1]
\* the failure that is counted twice
FailedTwice(s) == [s EXCEPT !.failedPosts = @ + 2]

\* lines 110 and 115
Failed(s) == [s EXCEPT !.failedPosts = @ + 1]
Skipped(s) == [s EXCEPT !.duplicatesSkipped = @ + 1]

\* the cycle that counts no result as a failure
ResultNeverFailed(success, s) == IF success THEN Succeeded(s) ELSE s

\* the cycle that counts every result as a failure
ResultAlwaysFailed(success, s) == Failed(s)

\* lines 105-111: the counter that records the result of createAndPublishPost
ResultStats(success, s) == IF success THEN Succeeded(s) ELSE Failed(s)

\* the catch block that counts nothing
CaughtNotCounted(s) == s

\* lines 113-115: the counter the catch block of the cycle increments
CaughtStats(s) == Failed(s)

Visit(c, stage) == [loc EXCEPT ![c].visited = @ \cup {stage}]

\* the catch block that throws the exception again
CaughtRethrown == "rejected"

\* lines 113-115: the catch block of the cycle swallows the exception, so
\* the promise of runAutomationCycle is fulfilled
CaughtOutcome == "resolved"

\* the locals are gone when the invocation returns; its history stays
Returned(c, l) ==
  [InitLoc EXCEPT !.entry = l[c].entry,
                  !.returned = [newsUrl |-> l[c].newsUrl,
                                postId |-> l[c].postId,
                                results |-> l[c].results,
                                visited |-> l[c].visited,
                                attempts |-> l[c].attempts]]

\* the cycle returns: the finally block of runAutomationCycle (lines 116-118)
Return(c, l, newStats, settled) ==
  /\ stats' = newStats
  /\ isRunning' = FinallyFlag
  /\ pc' = [pc EXCEPT ![c] = "idle"]
  /\ loc' = [loc EXCEPT ![c] = Returned(c, l)]
  /\ outcome' = [outcome EXCEPT ![c] = settled]

\* the cycle returns from its try block
Finish(c, l, newStats) == Return(c, l, newStats, "resolved")

\* an exception reaches the catch block of the cycle (lines 113-118)
Caught(c, l) == Return(c, l, CaughtStats(stats), CaughtOutcome)

db == <<posts, processedNews>>
env == <<mockMode, now, dbClosed>>

\* the counters, the table sizes and the number of posts of the trailing
\* 24 hours a call of runAutomationCycle finds
Entry ==
  [stats |-> stats, posts |-> Len(posts), processedNews |-> Len(processedNews),
   today |-> getTodayPostCount]

\* the limit that is never reached
QuotaNeverReached == FALSE

\* the limit that lets one post too many through
QuotaOffByOne == getTodayPostCount > maxPostsPerDay

\* line 90: the daily post limit
QuotaReached == getTodayPostCount >= maxPostsPerDay

\* runAutomationCycle up to its first await (lines 75-89)
runAutomationCycle(c, caller) ==
  IF GuardBlocks
  THEN UNCHANGED <<isRunning, lastRunTime, stats, pc, loc, outcome, lastOp>>
  ELSE /\ stats.totalRuns < MaxRuns
       /\ isRunning' = EntryFlag
       /\ lastRunTime' = now
       /\ stats' = [stats EXCEPT !.totalRuns = @ + 1]
       /\ pc' = [pc EXCEPT ![c] = "getTodayPostCount"]
       /\ loc' = [loc EXCEPT ![c] = [InitLoc EXCEPT !.entry = Entry]]
       /\ outcome' = [outcome EXCEPT ![c] = "pending"]
       /\ lastOp' = Op(caller, c, "started")

\* a new invocation takes the first free slot (the slots are interchangeable)
FreeSlot(c) == pc[c] = "idle" /\ \A d \in Cycles : d < c => pc[d] # "idle"

\* the cron callback of startScheduler (lines 54-57)
CronTrigger(c) ==
  /\ FreeSlot(c)
  /\ runAutomationCycle(c, "cron")
  /\ UNCHANGED <<db, lastPostTime, env>>

\* the route whose test of the running flag never succeeds
TriggerAlwaysAccepts == IF FALSE THEN 409 ELSE 200

\* router.post('/trigger'), line 79: the status of the response
TriggerResponse == IF isRunning THEN 409 ELSE 200

\* router.post('/trigger') with runManualCycle: the cycle is started and not
\* awaited, so the handler ends at the first await of the cycle
ManualTrigger(c) ==
  /\ FreeSlot(c)
  /\ IF TriggerResponse = 409
     THEN UNCHANGED <<isRunning, lastRunTime, stats, pc, loc, outcome, lastOp>>
     ELSE runAutomationCycle(c, "POST /trigger")
  /\ UNCHANGED <<db, lastPostTime, env>>

\* await this.getTodayPostCount() and the daily limit (lines 88-96)
GetTodayPostCount(c) ==
  /\ pc[c] = "getTodayPostCount"
  /\ \/ /\ lastOp' = Op("getTodayPostCount", c, "throw")
        /\ Caught(c, Visit(c, "quota"))
     \/ /\ QuotaReached
        /\ lastOp' = Op("getTodayPostCount", c, "limit")
        /\ Finish(c, Visit(c, "quota"), stats)
     \/ /\ ~QuotaReached
        /\ lastOp' = Op("getTodayPostCount", c, "ok")
        /\ pc' = [pc EXCEPT ![c] = "getRandomNews"]
        /\ loc' = Visit(c, "quota")
        /\ UNCHANGED <<isRunning, stats, outcome>>
  /\ UNCHANGED <<lastRunTime, db, lastPostTime, env>>

\* the loop that never gives up
MoreAttemptsAlways(attempts) == TRUE

\* line 125: the loop condition of getUniqueNewsItem
MoreAttempts(attempts) == attempts < maxAttempts

\* lines 136-145 and 140-145: one more attempt is spent; after maxAttempts
\* the selection returns null and the cycle returns (lines 97-100)
NextAttempt(c, l) ==
  IF MoreAttempts(l[c].attempts + 1)
  THEN /\ pc' = [pc EXCEPT ![c] = "getRandomNews"]
       /\ loc' = [l EXCEPT ![c].attempts = @ + 1]
       /\ UNCHANGED <<isRunning, stats, outcome>>
  ELSE Finish(c, [l EXCEPT ![c].attempts = @ + 1], stats)

\* await this.newsService.getRandomNews() (line 127); an undefined item makes
\* newsItem.url throw, which the catch of line 138 counts as an attempt
GetRandomNews(c) ==
  /\ pc[c] = "getRandomNews"
  /\ \/ \E u \in Urls :
          /\ lastOp' = Op("getRandomNews", c, u)
          /\ pc' = [pc EXCEPT ![c] = "isNewsProcessed"]
          /\ loc' = [Visit(c, "select") EXCEPT ![c].newsUrl = u]
          /\ UNCHANGED <<isRunning, stats, outcome>>
     \/ /\ lastOp' = Op("getRandomNews", c, "throw")
        /\ NextAttempt(c, Visit(c, "select"))
  /\ UNCHANGED <<lastRunTime, db, lastPostTime, env>>

\* await this.database.isNewsProcessed(newsItem.url) (lines 130-137); a
\* fresh item is returned and createAndPublishPost runs up to line 154
IsNewsProcessed(c) ==
  /\ pc[c] = "isNewsProcessed"
  /\ \/ /\ lastOp' = Op("isNewsProcessed", c, "throw")
        /\ NextAttempt(c, loc)
     \/ /\ isNewsProcessed(loc[c].newsUrl)
        /\ lastOp' = Op("isNewsProcessed", c, "true")
        /\ NextAttempt(c, loc)
     \/ /\ ~isNewsProcessed(loc[c].newsUrl)
        /\ lastOp' = Op("isNewsProcessed", c, "false")
        /\ pc' = [pc EXCEPT ![c] = "generateSocialMediaContent"]
        /\ loc' = [loc EXCEPT ![c].attempts = 0]
        /\ UNCHANGED <<isRunning, stats, outcome>>
  /\ UNCHANGED <<lastRunTime, db, lastPostTime, env>>

\* the catch block of createAndPublishPost (lines 211-222): with a post id
\* it awaits updatePostStatus(postId, 'failed'), otherwise it returns
\* {success: false} and the cycle counts the result (lines 105-111)
CreateCatch(c, l) ==
  IF l[c].postId # 0
  THEN /\ pc' = [pc EXCEPT ![c] = "updatePostStatusFailed"]
       /\ loc' = l
       /\ UNCHANGED <<isRunning, stats, outcome>>
  ELSE Finish(c, l, ResultStats(FALSE, stats))

\* await this.llmService.generateSocialMediaContent(newsItem) and the hash
\* (lines 154-160)
GenerateSocialMediaContent(c) ==
  /\ pc[c] = "generateSocialMediaContent"
  /\ \/ /\ lastOp' = Op("generateSocialMediaContent", c, "throw")
        /\ CreateCatch(c, Visit(c, "generate"))
     \/ \E content \in Contents :
          /\ lastOp' = Op("generateSocialMediaContent", c, "ok")
          /\ pc' = [pc EXCEPT ![c] = "isContentDuplicate"]
          /\ loc' = [Visit(c, "generate") EXCEPT
                       ![c].contentHash = generateContentHash(content.shortCaption \o content.longDescription)]
          /\ UNCHANGED <<isRunning, stats, outcome>>
  /\ UNCHANGED <<lastRunTime, db, lastPostTime, env>>

\* the duplicate branch that does not return
DuplicateIgnored(c) ==
  /\ pc' = [pc EXCEPT ![c] = "generateImageText"]
  /\ loc' = Visit(c, "duplicate")
  /\ UNCHANGED <<isRunning, stats, outcome>>

\* lines 161-165: the duplicate branch of createAndPublishPost and what the
\* cycle does with its result
DuplicateReturn(c) ==
  Finish(c, Visit(c, "duplicate"), ResultStats(FALSE, Skipped(stats)))

\* the post creation that goes from the duplicate check to the insert
AfterDuplicateCheckInsert == "insertPost"

\* lines 167-168: the await that follows the duplicate check
AfterDuplicateCheck == "generateImageText"

\* await this.database.isContentDuplicate(contentHash) (lines 160-168)
IsContentDuplicate(c) ==
  /\ pc[c] = "isContentDuplicate"
  /\ \/ /\ lastOp' = Op("isContentDuplicate", c, "throw")
        /\ CreateCatch(c, Visit(c, "duplicate"))
     \/ /\ isContentDuplicate(loc[c].contentHash)
        /\ lastOp' = Op("isContentDuplicate", c, "true")
        /\ DuplicateReturn(c)
     \/ /\ ~isContentDuplicate(loc[c].contentHash)
        /\ lastOp' = Op("isContentDuplicate", c, "false")
        /\ pc' = [pc EXCEPT ![c] = AfterDuplicateCheck]
        /\ loc' = Visit(c, "duplicate")
        /\ UNCHANGED <<isRunning, stats, outcome>>
  /\ UNCHANGED <<lastRunTime, db, lastPostTime, env>>

\* await this.llmService.generateImageText(newsItem) (lines 168-172)
GenerateImageText(c) ==
  /\ pc[c] = "generateImageText"
  /\ \/ /\ lastOp' = Op("generateImageText", c, "throw")
        /\ CreateCatch(c, Visit(c, "imageText"))
     \/ /\ lastOp' = Op("generateImageText", c, "ok")
        /\ pc' = [pc EXCEPT ![c] = "createPostImage"]
        /\ loc' = Visit(c, "imageText")
        /\ UNCHANGED <<isRunning, stats, outcome>>
  /\ UNCHANGED <<lastRunTime, db, lastPostTime, env>>

\* await this.imageService.createPostImage(...) (lines 172-175)
CreatePostImage(c) ==
  /\ pc[c] = "createPostImage"
  /\ \/ /\ lastOp' = Op("createPostImage", c, "throw")
        /\ CreateCatch(c, Visit(c, "render"))
     \/ /\ lastOp' = Op("createPostImage", c, "ok")
        /\ pc' = [pc EXCEPT ![c] = "insertPost"]
        /\ loc' = Visit(c, "render")
        /\ UNCHANGED <<isRunning, stats, outcome>>
  /\ UNCHANGED <<lastRunTime, db, lastPostTime, env>>

\* line 232: the service call a publish round makes
PublishPc == IF mockMode THEN "mockPost" ELSE "postToFacebook"

\* await this.database.insertPost(...) (lines 175-187); on success
\* publishWithRetry starts its first round
InsertPost(c) ==
  /\ pc[c] = "insertPost"
  /\ \/ /\ lastOp' = Op("insertPost", c, "throw")
        /\ CreateCatch(c, Visit(c, "insert"))
        /\ UNCHANGED posts
     \/ /\ ~UniqueViolation(loc[c].contentHash)
        /\ lastOp' = Op("insertPost", c, "ok")
        /\ posts' = Append(posts, NewPostRow(loc[c].newsUrl, loc[c].contentHash))
        /\ pc' = [pc EXCEPT ![c] = PublishPc]
        /\ loc' = [Visit(c, "insert") EXCEPT ![c].postId = Len(posts) + 1,
                                              ![c].attempt = 0,
                                              ![c].results = NoResults]
        /\ UNCHANGED <<isRunning, stats, outcome>>
  /\ UNCHANGED <<lastRunTime, processedNews, lastPostTime, env>>

\* the loop that always has a retry left
LastRoundNever(attempt) == FALSE

\* lines 244 and 256: no retry is left after this round
LastRound(attempt) == ~(attempt < maxRetries - 1)

\* lines 239-251: what publishWithRetry does with the results of a round
RoundDone(c, l) ==
  IF AllSuccessful(l[c].results) \/ LastRound(l[c].attempt)
  THEN /\ pc' = [pc EXCEPT ![c] = "updatePostStatus"]
       /\ loc' = l
  ELSE /\ pc' = [pc EXCEPT ![c] = "retryDelay"]
       /\ loc' = l

\* await this.socialMediaService.mockPost(content, imagePath) (line 233)
MockPost(c) ==
  /\ pc[c] = "mockPost"
  /\ lastOp' = Op("mockPost", c, "ok")
  /\ RoundDone(c, [Visit(c, "publish") EXCEPT
                     ![c].round = @ + 1,
                     ![c].roundEnd = now,
                     ![c].results = [p \in Platforms |-> "ok"],
                     ![c].callRound = [p \in Platforms |-> loc[c].round + 1],
                     ![c].okRound = [p \in Platforms |->
                        IF @[p] = 0 THEN loc[c].round + 1 ELSE @[p]]])
  /\ UNCHANGED <<isRunning, lastRunTime, stats, outcome, db, lastPostTime, env>>

\* postToFacebook / postToInstagram (part_006 lines 22-68, 89-133): the
\* locals after the call, for each outcome the call can have
Posted(c, l, p, r, api) ==
  [l EXCEPT ![c].results[p] = r,
            ![c].callRound[p] = l[c].round,
            ![c].apiRound[p] = IF api THEN l[c].round ELSE @,
            ![c].okRound[p] = IF r = "ok" /\ @ = 0 THEN l[c].round ELSE @]

\* the refused call that goes on to the remote API
RefusedCallsApiAnyway == TRUE

\* part_006 lines 24-26 and 91-93: the throw of a refused call comes before
\* every request to the remote API
RefusedCallsApi == FALSE

\* one platform call: rate limited, posted, or failed at the remote API
PostTo(c, l, p) ==
  \/ /\ ~canPost(p)
     /\ lastOp' = Op(p, c, "rate limit")
     /\ loc' = Posted(c, l, p, "fail", RefusedCallsApi)
     /\ UNCHANGED lastPostTime
  \/ /\ canPost(p)
     /\ lastOp' = Op(p, c, "ok")
     /\ loc' = Posted(c, l, p, "ok", TRUE)
     /\ lastPostTime' = [lastPostTime EXCEPT ![p] = now]
  \/ /\ canPost(p)
     /\ lastOp' = Op(p, c, "fail")
     /\ loc' = Posted(c, l, p, "fail", TRUE)
     /\ UNCHANGED lastPostTime

\* postToAllPlatforms up to its delay: const results = [] and
\* await this.postToFacebook(content, imagePath) (part_006 lines 180-187)
PostToFacebook(c) ==
  /\ pc[c] = "postToFacebook"
  /\ PostTo(c, [Visit(c, "publish") EXCEPT ![c].round = @ + 1,
                                           ![c].results = NoResults],
            "facebook")
  /\ pc' = [pc EXCEPT ![c] = "platformDelay"]
  /\ UNCHANGED <<isRunning, lastRunTime, stats, outcome, db, env>>

\* await this.delay(5000) (part_006 line 187)
PlatformDelay(c) ==
  /\ pc[c] = "platformDelay"
  /\ now' = now + platformDelay
  /\ lastOp' = Op("delay", c, "platform")
  /\ pc' = [pc EXCEPT ![c] = "postToInstagram"]
  /\ UNCHANGED <<isRunning, lastRunTime, stats, outcome, db, lastPostTime,
                 mockMode, dbClosed, loc>>

\* the round of cycle c ends in this step
RoundEnds(c) == [loc EXCEPT ![c].roundEnd = now]

\* await this.postToInstagram(content, imagePath), the return of
\* postToAllPlatforms and the round's verdict (part_006 lines 190-193)
PostToInstagram(c) ==
  /\ pc[c] = "postToInstagram"
  /\ \E l \in {Posted(c, RoundEnds(c), "instagram", "fail", RefusedCallsApi),
               Posted(c, RoundEnds(c), "instagram", "ok", TRUE),
               Posted(c, RoundEnds(c), "instagram", "fail", TRUE)} :
       /\ PostTo(c, RoundEnds(c), "instagram")
       /\ loc' = l
       /\ RoundDone(c, l)
  /\ UNCHANGED <<isRunning, lastRunTime, stats, outcome, db, env>>

\* the retry that does not wait
RetryWaitNone == 0 * retryDelay

\* the retry that waits longer than the platforms' minimum interval
RetryWaitLong == retryDelay + minInterval

\* lines 246 and 257: the time the delay between two rounds takes
RetryWait == retryDelay

\* await this.delay(this.retryDelay); attempt++ (lines 246-247)
RetryDelay(c) ==
  /\ pc[c] = "retryDelay"
  /\ now' = now + RetryWait
  /\ lastOp' = Op("delay", c, "retry")
  /\ loc' = [loc EXCEPT ![c].attempt = @ + 1]
  /\ pc' = [pc EXCEPT ![c] = PublishPc]
  /\ UNCHANGED <<isRunning, lastRunTime, stats, outcome, db, lastPostTime,
                 mockMode, dbClosed>>

\* the catch block that leaves the results as they are
CaughtResultsKept(results) == results

\* lines 260-263: the results when the last round threw, one failed outcome
\* per platform that carries the caught message
CaughtResults(results) == [p \in Platforms |-> "caught"]

\* line 232: the service method a publish round calls
PublishCall == IF mockMode THEN "mockPost" ELSE "postToAllPlatforms"

\* the service call of a round rejects and the catch block of
\* publishWithRetry runs (lines 253-266): it waits for the next round, or
\* after the last round it builds the results itself
ServiceThrows(c) ==
  /\ pc[c] = PublishPc
  /\ lastOp' = Op(PublishCall, c, "throw")
  /\ IF ~LastRound(loc[c].attempt)
     THEN /\ pc' = [pc EXCEPT ![c] = "retryDelay"]
          /\ loc' = [Visit(c, "publish") EXCEPT ![c].round = @ + 1,
                                                ![c].thrown = @ + 1,
                                                ![c].roundEnd = now]
     ELSE /\ pc' = [pc EXCEPT ![c] = "updatePostStatus"]
          /\ loc' = [Visit(c, "publish") EXCEPT
                       ![c].round = @ + 1,
                       ![c].thrown = @ + 1,
                       ![c].roundEnd = now,
                       ![c].results = CaughtResults(@)]
  /\ UNCHANGED <<isRunning, lastRunTime, stats, outcome, db, lastPostTime, env>>

\* await this.database.updatePostStatus(postId, status, ...) (lines 189-197)
UpdatePostStatus(c) ==
  /\ pc[c] = "updatePostStatus"
  /\ \/ /\ lastOp' = Op("updatePostStatus", c, "throw")
        /\ CreateCatch(c, Visit(c, "update"))
        /\ UNCHANGED posts
     \/ /\ lastOp' = Op("updatePostStatus", c, "ok")
        /\ posts' = WithStatus(loc[c].postId, AggregateStatus(loc[c].results))
        /\ pc' = [pc EXCEPT ![c] = "markNewsAsProcessed"]
        /\ loc' = Visit(c, "update")
        /\ UNCHANGED <<isRunning, stats, outcome>>
  /\ UNCHANGED <<lastRunTime, processedNews, lastPostTime, env>>

\* await this.database.markNewsAsProcessed(url, title), the return of
\* createAndPublishPost and the result counted by the cycle (lines 200-209)
MarkNewsAsProcessed(c) ==
  /\ pc[c] = "markNewsAsProcessed"
  /\ \/ /\ lastOp' = Op("markNewsAsProcessed", c, "throw")
        /\ CreateCatch(c, Visit(c, "mark"))
        /\ UNCHANGED processedNews
     \/ /\ lastOp' = Op("markNewsAsProcessed", c, "ok")
        /\ processedNews' = InsertOrIgnore(loc[c].newsUrl)
        /\ Finish(c, Visit(c, "mark"),
                  ResultStats(AllSuccessful(loc[c].results), stats))
  /\ UNCHANGED <<lastRunTime, posts, lastPostTime, env>>

\* the error handler that reopens the post
FailedStatusPending == "pending"

\* line 215: the status the catch block of createAndPublishPost writes
FailedStatus == "failed"

\* await this.database.updatePostStatus(postId, 'failed', ...) in the catch
\* block (lines 214-221); when it throws, the cycle's catch takes over
UpdatePostStatusFailed(c) ==
  /\ pc[c] = "updatePostStatusFailed"
  /\ \/ /\ lastOp' = Op("updatePostStatusFailed", c, "throw")
        /\ Caught(c, loc)
        /\ UNCHANGED posts
     \/ /\ lastOp' = Op("updatePostStatusFailed", c, "ok")
        /\ posts' = WithStatus(loc[c].postId, FailedStatus)
        /\ Finish(c, loc, ResultStats(FALSE, stats))
  /\ UNCHANGED <<lastRunTime, processedNews, lastPostTime, env>>

\* an idle period between two cycles: an hour, or the quota window
Tick ==
  /\ \A c \in Cycles : pc[c] = "idle"
  /\ lastOp.op \notin {"init", "tick"}
  /\ stats.totalRuns < MaxRuns
  /\ \E d \in {minInterval, quotaHours * HourMs} : now' = now + d
  /\ lastOp' = Op("tick", 0, "")
  /\ UNCHANGED <<isRunning, lastRunTime, stats, outcome, db, lastPostTime,
                 mockMode, dbClosed, pc, loc>>

\* one step of an open cycle: the await it is suspended at completes
CycleStep(c) ==
  \/ GetTodayPostCount(c)
  \/ GetRandomNews(c)
  \/ IsNewsProcessed(c)
  \/ GenerateSocialMediaContent(c)
  \/ IsContentDuplicate(c)
  \/ GenerateImageText(c)
  \/ CreatePostImage(c)
  \/ InsertPost(c)
  \/ MockPost(c)
  \/ PostToFacebook(c)
  \/ PlatformDelay(c)
  \/ PostToInstagram(c)
  \/ RetryDelay(c)
  \/ UpdatePostStatus(c)
  \/ MarkNewsAsProcessed(c)
  \/ UpdatePostStatusFailed(c)

Next ==
  \/ \E c \in Cycles : CronTrigger(c)
  \/ \E c \in Cycles : ManualTrigger(c)
  \/ \E c \in Cycles : CycleStep(c)
  \/ Tick

Spec == Init /\ [][Next]_vars

LiveNext ==
  \/ \E c \in Cycles : stats.totalRuns < MaxLiveRuns /\ CronTrigger(c)
  \/ \E c \in Cycles : stats.totalRuns < MaxLiveRuns /\ ManualTrigger(c)
  \/ \E c \in Cycles : CycleStep(c)
  \/ Tick

\* every collaborator call eventually returns or throws: the await an open
\* cycle is suspended at eventually completes
LiveSpec ==
  Init /\ [][LiveNext]_vars /\ \A c \in Cycles : WF_vars(CycleStep(c))

\* one cycle with a SocialMediaService whose calls may also reject, as
\* publishWithRetry allows for (lines 253-266)
PublishNext ==
  \/ LiveNext
  \/ \E c \in Cycles : ServiceThrows(c)

PublishSpec == Init /\ [][PublishNext]_vars

(* ------------------- the service with shutdown() ---------------------- *)
\* the awaits of a cycle that are calls of the Database
DatabaseCalls ==
  {"getTodayPostCount", "isNewsProcessed", "isContentDuplicate", "insertPost",
   "updatePostStatus", "markNewsAsProcessed", "updatePostStatusFailed"}

\* the shutdown that leaves the running flag as it is
ShutdownFlagKept == isRunning

\* line 359: the value shutdown() gives the running flag
ShutdownFlag == FALSE

\* shutdown() (lines 357-366) and Database.close() (part_000 lines 153-159),
\* called while no statement of a cycle is queued on the handle, so the
\* handle is closed at once (a call that finds the flag false and the handle
\* closed changes nothing)
Shutdown ==
  /\ \A c \in Cycles : pc[c] \notin DatabaseCalls
  /\ isRunning \/ ~dbClosed
  /\ isRunning' = ShutdownFlag
  /\ dbClosed' = TRUE
  /\ lastOp' = Op("shutdown", 0, "")
  /\ UNCHANGED <<lastRunTime, stats, db, lastPostTime, mockMode, now, pc, loc,
                 outcome>>

\* one step of an open cycle; a statement on a closed handle fails, so
\* every call of the Database rejects after shutdown()
ShutdownCycleStep(c) ==
  /\ CycleStep(c)
  /\ (dbClosed /\ lastOp'.op \in DatabaseCalls) => lastOp'.res = "throw"

ShutdownNext ==
  \/ \E c \in Cycles : CronTrigger(c)
  \/ \E c \in Cycles : ManualTrigger(c)
  \/ \E c \in Cycles : ShutdownCycleStep(c)
  \/ Tick
  \/ Shutdown

ShutdownSpec == Init /\ [][ShutdownNext]_vars

(* ------------------- the Database class on its own -------------------- *)
Statuses == {"pending", "published", "partial_failure", "failed"}

\* insertPost called by any client of the class (part_000 lines 66-85)
DbInsertPost(newsUrl, contentHash) ==
  /\ \/ /\ UniqueViolation(contentHash)
        /\ lastOp' = Op("insertPost", 0, "constraint")
        /\ UNCHANGED posts
     \/ /\ ~UniqueViolation(contentHash)
        /\ Len(posts) < MaxRows
        /\ lastOp' = Op("insertPost", 0, "ok")
        /\ posts' = Append(posts, NewPostRow(newsUrl, contentHash))
  /\ UNCHANGED <<isRunning, lastRunTime, stats, processedNews, lastPostTime,
                 env, pc, loc, outcome>>

\* updatePostStatus called by any client (part_000 lines 87-98)
DbUpdatePostStatus(id, status) ==
  /\ lastOp' = Op("updatePostStatus", 0, "ok")
  /\ posts' = WithStatus(id, status)
  /\ UNCHANGED <<isRunning, lastRunTime, stats, processedNews, lastPostTime,
                 env, pc, loc, outcome>>

\* markNewsAsProcessed called by any client (part_000 lines 113-124); the
\* statement reports whether it inserted a row (changes)
DbMarkNewsAsProcessed(newsUrl) ==
  /\ lastOp' = Op("markNewsAsProcessed", 0,
                  [newsUrl |-> newsUrl,
                   changes |-> IF isNewsProcessed(newsUrl) THEN 0 ELSE 1])
  /\ processedNews' = InsertOrIgnore(newsUrl)
  /\ UNCHANGED <<isRunning, lastRunTime, stats, posts, lastPostTime,
                 env, pc, loc, outcome>>

Hashes ==
  {generateContentHash(content.shortCaption \o content.longDescription) :
     content \in Contents}

DbNext ==
  \/ \E u \in Urls, h \in Hashes : DbInsertPost(u, h)
  \/ \E id \in 1..MaxRows, st \in Statuses : DbUpdatePostStatus(id, st)
  \/ \E u \in Urls : DbMarkNewsAsProcessed(u)

DbSpec == Init /\ [][DbNext]_vars

(* --------------- the SocialMediaService class on its own ------------- *)
\* postToFacebook / postToInstagram up to the first await (part_006 lines
\* 22-37 and 89-103): a refused call ends in the catch block at once
SvcPostBegin(p) ==
  /\ lastOp.res # "calling"
  /\ lastOp' = Op(p, 0, IF canPost(p) THEN "calling" ELSE "rate limit")
  /\ UNCHANGED <<isRunning, lastRunTime, stats, db, lastPostTime, env, pc, loc,
                 outcome>>

\* the remote calls settle (part_006 lines 37-66 and 103-131): the post is
\* recorded with the time of its completion, or the call fails
SvcPostEnd(p) ==
  /\ lastOp = Op(p, 0, "calling")
  /\ \/ /\ lastOp' = Op(p, 0, "ok")
        /\ lastPostTime' = [lastPostTime EXCEPT ![p] = now]
     \/ /\ lastOp' = Op(p, 0, "fail")
        /\ UNCHANGED lastPostTime
  /\ UNCHANGED <<isRunning, lastRunTime, stats, db, env, pc, loc, outcome>>

\* Date.now() moves on, before, during or after a call (part_006 line 175)
ClockSteps == {minInterval \div 2, minInterval}

SvcTick ==
  /\ \E d \in ClockSteps :
       /\ now + d <= minInterval + MaxClockHours * HourMs
       /\ now' = now + d
  /\ UNCHANGED <<isRunning, lastRunTime, stats, db, lastPostTime, mockMode,
                 dbClosed, pc, loc, outcome, lastOp>>

\* the service is called by one caller at a time (the cycle is single-flight)
SvcNext ==
  \/ \E p \in Platforms : SvcPostBegin(p)
  \/ \E p \in Platforms : SvcPostEnd(p)
  \/ SvcTick

SvcSpec == Init /\ [][SvcNext]_vars

TypeOK ==
  /\ isRunning \in BOOLEAN
  /\ \A c \in Cycles : loc[c].attempts \in 0..maxAttempts
  /\ \A c \in Cycles : loc[c].attempt \in 0..(maxRetries - 1)
  /\ Len(posts) <= MaxRuns

(* ------------------------------ claims --------------------------------- *)
Open(c) == pc[c] # "idle"

\* C1: at most one invocation of runAutomationCycle is past its entry guard
\* at any instant, for every interleaving of cron and manual triggers.
C1_SingleFlight ==
  /\ \A c, d \in Cycles : Open(c) /\ Open(d) => c = d
  /\ (\E c \in Cycles : Open(c)) => isRunning

\* a cycle is suspended in the middle of publishing while a slot is free for
\* the next cron or manual trigger
C1_Witness ==
  \E c, d \in Cycles : pc[c] = "postToInstagram" /\ isRunning /\ FreeSlot(d)

\* C2: a call of runAutomationCycle made while isRunning is true changes
\* nothing: the counters, lastRunTime, both tables, the platform rate
\* limiter and the open cycle are as before, and isRunning stays true.
C2_DroppedTriggerIsNoOp ==
  [][\A c \in Cycles :
       (isRunning /\ FreeSlot(c) /\ runAutomationCycle(c, "cron"))
         => /\ UNCHANGED <<stats, lastRunTime, posts, processedNews,
                           lastPostTime, pc, loc, outcome>>
            /\ isRunning']_vars

\* a trigger can arrive while a cycle that already inserted its post runs
C2_Witness ==
  \E c, d \in Cycles :
    isRunning /\ FreeSlot(d) /\ loc[c].postId # 0 /\ stats.totalRuns = 2

\* C3: every cycle that passed the entry guard eventually is back at idle
\* with isRunning false, whatever its collaborators return or throw.
C3_CycleReturnsToIdle ==
  \A c \in Cycles : Open(c) ~> (~Open(c) /\ ~isRunning)

\* a cycle ended because the status update of the error handler threw
C3_Witness ==
  /\ lastOp.op = "updatePostStatusFailed" /\ lastOp.res = "throw"
  /\ ~isRunning /\ \A c \in Cycles : ~Open(c)

\* C4: the promise of runAutomationCycle is never rejected, whichever
\* collaborator throws, the status update of the error handler included.
C4_NeverRethrows == \A c \in Cycles : outcome[c] # "rejected"

\* the error handler's status update threw and the cycle's promise resolved
C4_Witness ==
  /\ lastOp.op = "updatePostStatusFailed" /\ lastOp.res = "throw"
  /\ outcome[lastOp.c] = "resolved" /\ stats.failedPosts > 0

AfterSelection ==
  {"generateSocialMediaContent", "isContentDuplicate", "generateImageText",
   "createPostImage", "insertPost", "mockPost", "postToFacebook",
   "platformDelay", "postToInstagram", "retryDelay", "updatePostStatus",
   "markNewsAsProcessed", "updatePostStatusFailed"}

\* C5: a cycle that is past news selection never works on a URL that has a
\* row in processed_news.
C5_ProcessedNeverSelected ==
  \A c \in Cycles :
    pc[c] \in AfterSelection => ~(loc[c].newsUrl \in Range(processedNews))

\* the selection just fetched a processed URL and rejected it
C5_Witness ==
  /\ lastOp.op = "isNewsProcessed" /\ lastOp.res = "true"
  /\ loc[lastOp.c].newsUrl \in Range(processedNews)

\* the step in which isContentDuplicate(contentHash) returns true to cycle c
DuplicateFound(c) ==
  /\ pc[c] = "isContentDuplicate"
  /\ \E i \in DOMAIN posts : posts[i].contentHash = loc[c].contentHash
  /\ lastOp' = Op("isContentDuplicate", c, "true")

\* C6: a cycle whose content hash already belongs to a Post row increments
\* duplicatesSkipped by 1, adds no Post row and no processed_news row, and
\* ends without having called the image renderer or a platform client.
C6_DuplicateSkipped ==
  [][\A c \in Cycles :
       DuplicateFound(c)
         => /\ stats'.duplicatesSkipped = stats.duplicatesSkipped + 1
            /\ posts' = posts
            /\ processedNews' = processedNews
            /\ lastPostTime' = lastPostTime
            /\ loc[c].visited \cap {"render", "publish"} = {}
            /\ ~Open(c)']_vars

\* a duplicate was found and skipped
C6_Witness ==
  /\ lastOp.op = "isContentDuplicate" /\ lastOp.res = "true"
  /\ stats.duplicatesSkipped = 1 /\ Len(posts) = 1

\* C7: a cycle that ends because isContentDuplicate returned true increments
\* duplicatesSkipped and does not increment failedPosts.
C7_DuplicateNotAFailure ==
  [][\A c \in Cycles :
       DuplicateFound(c)
         => /\ stats'.duplicatesSkipped = stats.duplicatesSkipped + 1
            /\ stats'.failedPosts = stats.failedPosts]_vars

\* C8: at most one Post row exists per contentHash.
C8_UniqueContentHash ==
  \A i, j \in DOMAIN posts :
    posts[i].contentHash = posts[j].contentHash => i = j

\* an insert with a stored hash was refused
C8_Witness ==
  /\ lastOp.op = "insertPost" /\ lastOp.res = "constraint"
  /\ Len(posts) >= 1

\* the aggregate status the specification asks for
ClaimedStatus(results) ==
  IF \A p \in Platforms : results[p] = "ok" THEN "published"
  ELSE IF \E p \in Platforms : results[p] = "ok" THEN "partial_failure"
  ELSE "failed"

\* C9: the status written after publishing is published iff every platform
\* succeeded, partial_failure iff some but not all did, failed iff none did.
C9_AggregateStatus ==
  \A c \in Cycles :
    pc[c] = "markNewsAsProcessed"
      => posts[loc[c].postId].status = ClaimedStatus(loc[c].results)

\* C10: within one publishWithRetry call a platform that succeeded in round
\* n is not invoked in any later round.
C10_SucceededNotReinvoked ==
  \A c \in Cycles : \A p \in Platforms :
    loc[c].okRound[p] # 0 => loc[c].callRound[p] <= loc[c].okRound[p]

\* C11: when publishWithRetry has returned, every platform that succeeded in
\* some round of the call has a successful outcome in the returned list.
C11_SucceededReportedSuccess ==
  \A c \in Cycles : \A p \in Platforms :
    (pc[c] = "updatePostStatus" /\ loc[c].okRound[p] # 0)
      => loc[c].results[p] = "ok"

\* C12: publishWithRetry always returns, with one outcome per platform; the
\* outcomes are all failures with the caught message when every round threw;
\* the catch block of createAndPublishPost is entered only from a database
\* call, never from publishing.
C12_PublishNeverThrows ==
  \A c \in Cycles :
    /\ pc[c] = "updatePostStatus"
         => /\ \A p \in Platforms : loc[c].results[p] # "none"
            /\ loc[c].thrown = loc[c].round
                 => \A p \in Platforms : loc[c].results[p] = "caught"
    /\ pc[c] = "updatePostStatusFailed"
         => lastOp.op \in {"updatePostStatus", "markNewsAsProcessed"}

\* every round of a publishWithRetry call threw and the call returned
C12_Witness ==
  \E c \in Cycles :
    /\ pc[c] = "updatePostStatus" /\ loc[c].thrown = maxRetries
    /\ \A p \in Platforms : loc[c].results[p] = "caught"

\* C13: while less than minInterval has passed since the recorded post of a
\* platform, canPost refuses it; lastPostTime changes only in a successful
\* post, to the current time, at least minInterval after the previous
\* successful post; a failed or refused post leaves lastPostTime unchanged.
C13_MinIntervalBetweenPublishes ==
  /\ [](\A p \in Platforms :
          now < lastPostTime[p] + minInterval => ~canPost(p))
  /\ [][\A p \in Platforms :
          /\ lastPostTime'[p] # lastPostTime[p]
               => /\ lastOp' = Op(p, 0, "ok")
                  /\ lastPostTime'[p] = now
                  /\ lastPostTime'[p] - lastPostTime[p] >= minInterval
          /\ (lastOp' # lastOp /\ lastOp'.op = p /\ lastOp'.res # "ok")
               => lastPostTime' = lastPostTime]_vars

\* a platform is refused half an interval after its last successful post
C13_Witness ==
  \E p \in Platforms :
    /\ lastOp = Op(p, 0, "rate limit")
    /\ lastPostTime[p] >= minInterval
    /\ now - lastPostTime[p] < minInterval

\* the counters of cycle c are those it found at entry, but for totalRuns
CountersAsAtEntry(c) ==
  stats = [loc[c].entry.stats EXCEPT !.totalRuns = @ + 1]

\* both tables have the rows cycle c found at entry
TablesAsAtEntry(c) ==
  /\ Len(posts) = loc[c].entry.posts
  /\ Len(processedNews) = loc[c].entry.processedNews

\* C14: a cycle that starts with at least maxPostsPerDay posts in the
\* trailing 24 hours never gets past the quota check, and when the check has
\* returned, the cycle is over: no news was fetched, no content generated,
\* no row inserted, nothing published, and successfulPosts, failedPosts and
\* duplicatesSkipped are as at entry.
C14_QuotaReachedIsNoOp ==
  \A c \in Cycles :
    loc[c].entry.today >= maxPostsPerDay
      => /\ pc[c] \in {"idle", "getTodayPostCount"}
         /\ lastOp = Op("getTodayPostCount", c, "limit")
              => /\ ~Open(c)
                 /\ loc[c].returned.visited = {"quota"}
                 /\ loc[c].returned.newsUrl = ""
                 /\ loc[c].returned.postId = 0
                 /\ TablesAsAtEntry(c)
                 /\ CountersAsAtEntry(c)

\* a cycle found one post of the last 24 hours and returned at the limit
C14_Witness ==
  \E c \in Cycles :
    /\ lastOp = Op("getTodayPostCount", c, "limit")
    /\ loc[c].entry.today >= maxPostsPerDay
    /\ stats.totalRuns = 2 /\ ~isRunning

\* C15: the selection of a cycle never makes more than maxAttempts fetches;
\* a cycle whose maxAttempts fetches all gave a processed URL or an error is
\* over without having generated content or inserted a row, and
\* successfulPosts, failedPosts and duplicatesSkipped are as at entry.
C15_SelectionExhaustedIsNoOp ==
  \A c \in Cycles :
    /\ loc[c].attempts < maxAttempts
    /\ loc[c].returned.attempts \in {0, maxAttempts}
    /\ loc[c].returned.attempts = maxAttempts
         => /\ ~Open(c)
            /\ loc[c].returned.visited = {"quota", "select"}
            /\ loc[c].returned.postId = 0
            /\ TablesAsAtEntry(c)
            /\ CountersAsAtEntry(c)

\* the tenth fetch of a cycle gave a processed URL and the cycle returned
C15_Witness ==
  \E c \in Cycles :
    /\ lastOp = Op("isNewsProcessed", c, "true")
    /\ loc[c].returned.attempts = maxAttempts
    /\ ~Open(c) /\ ~isRunning

\* C16: a cycle that has returned after calling the platform service left a
\* row for its news URL in processed_news.
C16_AttemptedNewsIsProcessed ==
  \A c \in Cycles :
    (~Open(c) /\ "publish" \in loc[c].returned.visited)
      => loc[c].returned.newsUrl \in Range(processedNews)

\* C17: processed_news never has two rows for one URL; a call of
\* markNewsAsProcessed succeeds and isNewsProcessed is true for its URL
\* afterwards, whether or not the URL was marked before; isNewsProcessed is
\* false for every URL at the start and becomes true for a URL only in a
\* call of markNewsAsProcessed for that URL.
C17_MarkIsIdempotent ==
  /\ \A u \in Urls : ~isNewsProcessed(u)
  /\ [](\A i, j \in DOMAIN processedNews :
          processedNews[i] = processedNews[j] => i = j)
  /\ [](lastOp.op = "markNewsAsProcessed"
          => isNewsProcessed(lastOp.res.newsUrl))
  /\ [][\A u \in Urls :
          (~isNewsProcessed(u) /\ isNewsProcessed(u)')
            => (lastOp'.op = "markNewsAsProcessed" /\ lastOp'.res.newsUrl = u)]_vars

\* a URL that had its row was marked again
C17_Witness ==
  /\ lastOp.op = "markNewsAsProcessed" /\ lastOp.res.changes = 0
  /\ Len(processedNews) = 1 /\ processedNews[1] = lastOp.res.newsUrl

\* the step in which insertPost with contentHash h succeeds
InsertedNow(h) ==
  /\ lastOp'.op = "insertPost" /\ lastOp'.res = "ok"
  /\ Len(posts') = Len(posts) + 1
  /\ posts'[Len(posts')].contentHash = h

\* C18: isContentDuplicate is false for every hash at the start, true for
\* the hash of a row that insertPost has just added, and it is true after a
\* step exactly if it was true before or the step is a successful
\* insertPost with that hash.
C18_DuplicateIffInserted ==
  /\ \A h \in Hashes : ~isContentDuplicate(h)
  /\ []((lastOp.op = "insertPost" /\ lastOp.res = "ok")
          => isContentDuplicate(posts[Len(posts)].contentHash))
  /\ [][\A h \in Hashes :
          isContentDuplicate(h)' <=> (isContentDuplicate(h) \/ InsertedNow(h))]_vars

\* one hash was inserted and is found, the other was not and is not found
C18_Witness ==
  /\ lastOp.op = "insertPost" /\ lastOp.res = "ok" /\ Len(posts) = 1
  /\ isContentDuplicate(posts[1].contentHash)
  /\ \E h \in Hashes : ~isContentDuplicate(h)

\* C19: a cycle that ended with the mark of its URL after every platform
\* succeeded added exactly one row to posts, for its URL and with status
\* published, added exactly one row to processed_news, for its URL, and
\* incremented successfulPosts by 1 and failedPosts by 0.
C19_SuccessfulCycle ==
  \A c \in Cycles :
    (lastOp = Op("markNewsAsProcessed", c, "ok")
       /\ AllSuccessful(loc[c].returned.results))
      => /\ ~Open(c)
         /\ Len(posts) = loc[c].entry.posts + 1
         /\ loc[c].returned.postId = Len(posts)
         /\ posts[Len(posts)].status = "published"
         /\ posts[Len(posts)].newsUrl = loc[c].returned.newsUrl
         /\ Len(processedNews) = loc[c].entry.processedNews + 1
         /\ processedNews[Len(processedNews)] = loc[c].returned.newsUrl
         /\ stats = [loc[c].entry.stats EXCEPT !.totalRuns = @ + 1,
                                               !.successfulPosts = @ + 1]

\* a cycle published on both real platforms and returned
C19_Witness ==
  \E c \in Cycles :
    /\ lastOp = Op("markNewsAsProcessed", c, "ok")
    /\ AllSuccessful(loc[c].returned.results)
    /\ ~mockMode /\ stats.successfulPosts = 1 /\ ~isRunning

\* C20: a row of posts is created with status pending, no row disappears,
\* and a row whose status is published or failed never has status pending
\* after a step of the cycle.
C20_StatusMonotonic ==
  [][/\ \A i \in DOMAIN posts :
          /\ i \in DOMAIN posts'
          /\ posts[i].status \in {"published", "failed"}
               => posts'[i].status # "pending"
     /\ \A i \in DOMAIN posts' \ DOMAIN posts :
          posts'[i].status = "pending"]_vars

\* the status of a published post was overwritten by the error handler
\* because the mark of its URL threw
C20_Witness ==
  \E c \in Cycles :
    /\ lastOp = Op("updatePostStatusFailed", c, "ok")
    /\ "mark" \in loc[c].returned.visited
    /\ AllSuccessful(loc[c].returned.results)
    /\ posts[loc[c].returned.postId].status = "failed"

\* C21: POST /trigger answers 409 exactly while a cycle is open and then
\* changes nothing; otherwise it answers 200 at the first await of the cycle
\* it started, whose promise is still pending, so the answer is a function of
\* the state before the request and never of the result of the cycle.
C21_ManualTriggerIsFireAndForget ==
  /\ [](TriggerResponse = IF \E c \in Cycles : Open(c) THEN 409 ELSE 200)
  /\ [][\A c \in Cycles :
          (FreeSlot(c) /\ ManualTrigger(c))
            => IF TriggerResponse = 409
               THEN UNCHANGED <<isRunning, lastRunTime, stats, posts,
                                processedNews, lastPostTime, pc, loc, outcome>>
               ELSE /\ pc'[c] = "getTodayPostCount"
                    /\ outcome'[c] = "pending"
                    /\ isRunning'
                    /\ stats' = [stats EXCEPT !.totalRuns = @ + 1]
                    /\ UNCHANGED <<posts, processedNews, lastPostTime>>]_vars

\* the cycle a request started is pending and the next request gets 409
C21_Witness ==
  \E c, d \in Cycles :
    /\ lastOp = Op("POST /trigger", c, "started")
    /\ outcome[c] = "pending"
    /\ FreeSlot(d) /\ TriggerResponse = 409

\* the last call of cycle c threw out of its stage: the quota check, or a
\* collaborator of createAndPublishPost before a post id exists
ThrewOut(c) ==
  /\ lastOp.c = c /\ lastOp.res = "throw"
  /\ lastOp.op \in {"getTodayPostCount", "generateSocialMediaContent",
                    "isContentDuplicate", "generateImageText",
                    "createPostImage", "insertPost"}

\* the last call of cycle c is the status update of the error handler: a
\* collaborator threw after the post was inserted
HandledWithPost(c) == lastOp.c = c /\ lastOp.op = "updatePostStatusFailed"

\* C22: as long as a cycle is open the counters but totalRuns are those of
\* its entry, and a cycle that returned after an exception left a stage, at
\* the cycle boundary or inside createAndPublishPost, has incremented
\* failedPosts by exactly 1 and no other counter.
C22_ExceptionCountedOnce ==
  \A c \in Cycles :
    /\ Open(c) => CountersAsAtEntry(c)
    /\ (~Open(c) /\ (ThrewOut(c) \/ HandledWithPost(c)))
         => stats = [loc[c].entry.stats EXCEPT !.totalRuns = @ + 1,
                                               !.failedPosts = @ + 1]

\* the status update after publishing threw, the error handler wrote
\* failed, and the cycle returned
C22_Witness ==
  \E c \in Cycles :
    /\ lastOp = Op("updatePostStatusFailed", c, "ok")
    /\ "mark" \notin loc[c].returned.visited
    /\ ~Open(c)
    /\ stats.failedPosts = loc[c].entry.stats.failedPosts + 1

\* publishWithRetry of cycle c is between two rounds or inside a round
Publishing(c) ==
  pc[c] \in {"mockPost", "postToFacebook", "platformDelay", "postToInstagram",
             "retryDelay"}

\* C23: publishWithRetry starts at most maxRetries rounds; it waits only
\* after a round that was not fully successful and that was not the last,
\* every wait is followed by a round, and it returns right after a round:
\* after the first fully successful one, or after round maxRetries.
C23_BoundedRounds ==
  \A c \in Cycles :
    /\ loc[c].round <= maxRetries
    /\ loc[c].attempt <= maxRetries - 1
    /\ pc[c] = "retryDelay"
         => /\ loc[c].round = loc[c].attempt + 1
            /\ loc[c].round < maxRetries
            /\ ~AllSuccessful(loc[c].results)
    /\ pc[c] \in {"mockPost", "postToFacebook"}
         => /\ loc[c].round = loc[c].attempt
            /\ ~AllSuccessful(loc[c].results)
    /\ pc[c] = "updatePostStatus"
         => /\ loc[c].round = loc[c].attempt + 1
            /\ AllSuccessful(loc[c].results) \/ loc[c].round = maxRetries

\* three rounds with a platform failure each and two waits between them
C23_Witness ==
  \E c \in Cycles :
    /\ pc[c] = "updatePostStatus"
    /\ loc[c].round = maxRetries /\ loc[c].attempt = maxRetries - 1
    /\ loc[c].thrown = 0 /\ ~AllSuccessful(loc[c].results)

\* C24: a round of publishWithRetry starts only when both platforms have
\* their outcome of the round before and retryDelay has passed since that
\* round ended; inside a round instagram is called after the outcome of
\* facebook is known.
C24_RoundsAreSequential ==
  \A c \in Cycles :
    /\ (pc[c] \in {"mockPost", "postToFacebook"} /\ loc[c].round >= 1)
         => /\ \A p \in Platforms :
                 /\ loc[c].callRound[p] = loc[c].round
                 /\ loc[c].results[p] \in {"ok", "fail"}
            /\ now >= loc[c].roundEnd + retryDelay
    /\ pc[c] \in {"platformDelay", "postToInstagram"}
         => /\ loc[c].callRound["facebook"] = loc[c].round
            /\ loc[c].callRound["instagram"] = loc[c].round - 1
    /\ pc[c] = "retryDelay"
         => \A p \in Platforms : loc[c].callRound[p] = loc[c].round

\* the third round is about to start, a retryDelay after the second ended
C24_Witness ==
  \E c \in Cycles :
    /\ pc[c] = "postToFacebook" /\ loc[c].round = 2
    /\ now = loc[c].roundEnd + retryDelay
    /\ \A p \in Platforms : loc[c].callRound[p] = 2

\* C25: a platform call that failed, refused by canPost or failed at the
\* remote API, left a failed outcome for its platform and the cycle open;
\* a refused call made no request to the remote API in its round; after a
\* failed facebook call the round goes on to instagram, and a failed
\* instagram call comes after the facebook call of the same round and ends
\* the round normally.
C25_PlatformFailureIsLocal ==
  \A c \in Cycles : \A p \in Platforms :
    (lastOp.c = c /\ lastOp.op = p /\ lastOp.res \in {"rate limit", "fail"})
      => /\ loc[c].results[p] = "fail"
         /\ loc[c].callRound[p] = loc[c].round
         /\ lastOp.res = "rate limit"
              => /\ loc[c].apiRound[p] # loc[c].round
                 /\ now - lastPostTime[p] < minInterval
         /\ p = "facebook" => pc[c] = "platformDelay"
         /\ p = "instagram"
              => /\ loc[c].callRound["facebook"] = loc[c].round
                 /\ pc[c] \in {"retryDelay", "updatePostStatus"}

\* instagram was refused in a round in which facebook succeeded
C25_Witness ==
  \E c \in Cycles :
    /\ lastOp = Op("instagram", c, "rate limit")
    /\ loc[c].results["facebook"] = "ok"
    /\ loc[c].apiRound["facebook"] = loc[c].round

\* the stages of a cycle in the order of the source
StageOrder ==
  <<"quota", "select", "generate", "duplicate", "imageText", "render",
    "insert", "publish", "update", "mark">>

\* the number of stages that are complete when a cycle waits at an await
StagesDone(at) ==
  CASE at = "getTodayPostCount" -> 0
    [] at \in {"getRandomNews", "isNewsProcessed"} -> 1
    [] at = "generateSocialMediaContent" -> 2
    [] at = "isContentDuplicate" -> 3
    [] at = "generateImageText" -> 4
    [] at = "createPostImage" -> 5
    [] at = "insertPost" -> 6
    [] at \in {"mockPost", "postToFacebook", "platformDelay",
               "postToInstagram", "retryDelay"} -> 7
    [] at = "updatePostStatus" -> 8
    [] at = "markNewsAsProcessed" -> 9
    [] OTHER -> 0

\* no stage was visited without all the stages before it
InOrder(visited) ==
  \A i \in DOMAIN StageOrder :
    StageOrder[i] \in visited
      => \A j \in 1..(i - 1) : StageOrder[j] \in visited

\* C26: the stages a cycle has visited, while it runs and when it has
\* returned, are an initial part of quota check, selection, generation,
\* duplicate check, image text, rendering, insert, publishing, status
\* update, mark; a cycle that waits at a stage has completed every stage
\* before it and has not yet visited a stage after it.
C26_StagesInOrder ==
  \A c \in Cycles :
    /\ InOrder(loc[c].visited)
    /\ InOrder(loc[c].returned.visited)
    /\ (Open(c) /\ pc[c] # "updatePostStatusFailed")
         => /\ \A j \in 1..StagesDone(pc[c]) : StageOrder[j] \in loc[c].visited
            /\ \A j \in (StagesDone(pc[c]) + 2)..Len(StageOrder) :
                 StageOrder[j] \notin loc[c].visited

\* a cycle is publishing after all of the stages before publishing
C26_Witness ==
  \E c \in Cycles :
    /\ pc[c] = "postToInstagram"
    /\ loc[c].visited = {StageOrder[j] : j \in 1..8}

\* C27: while publishWithRetry of a cycle runs, in a platform call, between
\* the platforms or between two rounds, posts has the row of the cycle, with
\* its URL and its content hash and with status pending; a cycle that has
\* called the platform service has a post id.
C27_PendingRowWhilePublishing ==
  \A c \in Cycles :
    /\ Publishing(c)
         => /\ loc[c].postId \in DOMAIN posts
            /\ posts[loc[c].postId].status = "pending"
            /\ posts[loc[c].postId].contentHash = loc[c].contentHash
            /\ posts[loc[c].postId].newsUrl = loc[c].newsUrl
    /\ "publish" \in loc[c].visited => loc[c].postId # 0
    /\ "publish" \in loc[c].returned.visited => loc[c].returned.postId # 0

\* between the second and the third round the row is still pending
C27_Witness ==
  \E c \in Cycles :
    /\ pc[c] = "retryDelay" /\ loc[c].round = 2
    /\ posts[loc[c].postId].status = "pending"

\* C28: the row of a cycle whose status update after publishing succeeded
\* has the status that update wrote when the cycle has returned.
C28_StatusWrittenOnce ==
  \A c \in Cycles :
    (~Open(c) /\ "mark" \in loc[c].returned.visited)
      => posts[loc[c].returned.postId].status
           = AggregateStatus(loc[c].returned.results)

\* a cycle returned without a post row and without a platform call: the
\* tables are those of its entry and failedPosts is one more
FailedBeforePublish(c) ==
  /\ ~Open(c)
  /\ loc[c].returned.postId = 0
  /\ "publish" \notin loc[c].returned.visited
  /\ TablesAsAtEntry(c)
  /\ loc[c].returned.newsUrl \notin Range(processedNews)
  /\ stats = [loc[c].entry.stats EXCEPT !.totalRuns = @ + 1,
                                        !.failedPosts = @ + 1]

\* C29: a cycle whose insertPost failed has returned without a call of the
\* platform service and without a row in processed_news for its URL, and
\* has incremented failedPosts by 1.
C29_InsertFailureIsFatal ==
  \A c \in Cycles :
    lastOp = Op("insertPost", c, "throw")
      => /\ FailedBeforePublish(c)
         /\ "render" \in loc[c].returned.visited

\* insertPost rejected after the image was rendered
C29_Witness ==
  \E c \in Cycles :
    /\ lastOp = Op("insertPost", c, "throw")
    /\ loc[c].returned.visited
         = {"quota", "select", "generate", "duplicate", "imageText",
            "render", "insert"}

\* C30: a cycle whose createPostImage threw has returned without a row in
\* posts, without a call of the platform service and without a row in
\* processed_news for its URL, and has incremented failedPosts by 1.
C30_RenderFailureIsFatal ==
  \A c \in Cycles :
    lastOp = Op("createPostImage", c, "throw")
      => /\ FailedBeforePublish(c)
         /\ "insert" \notin loc[c].returned.visited

\* the renderer threw in the second cycle, after a post of the first
C30_Witness ==
  \E c \in Cycles :
    /\ lastOp = Op("createPostImage", c, "throw")
    /\ Len(posts) = 1 /\ stats.totalRuns = 2 /\ stats.failedPosts >= 1

\* C31: at most one invocation of runAutomationCycle is past its entry guard
\* at any instant, also when shutdown() is among the operations called.
C31_SingleFlightWithShutdown ==
  \A c, d \in Cycles : Open(c) /\ Open(d) => c = d

\* what one cycle may add to <<successfulPosts, failedPosts>>
CycleCounts == {<<0, 0>>, <<1, 0>>, <<0, 1>>}

\* C32: successfulPosts + failedPosts <= totalRuns in every state, no
\* counter decreases, and a cycle that passed the entry guard has added
\* exactly 1 to totalRuns and 1 to at most one of successfulPosts and
\* failedPosts when it returns.
C32_CountersConsistent ==
  /\ [](stats.successfulPosts + stats.failedPosts <= stats.totalRuns)
  /\ [][/\ stats'.totalRuns >= stats.totalRuns
         /\ stats'.successfulPosts >= stats.successfulPosts
         /\ stats'.failedPosts >= stats.failedPosts
         /\ \A c \in Cycles :
              /\ (~Open(c) /\ pc'[c] # "idle")
                   => stats' = [stats EXCEPT !.totalRuns = @ + 1]
              /\ (Open(c) /\ pc'[c] = "idle")
                   => /\ stats'.totalRuns = loc[c].entry.stats.totalRuns + 1
                      /\ <<stats'.successfulPosts
                             - loc[c].entry.stats.successfulPosts,
                           stats'.failedPosts
                             - loc[c].entry.stats.failedPosts>> \in CycleCounts
         ]_vars

\* two cycles have returned, one counted as a success and one as a failure
C32_Witness ==
  /\ \A c \in Cycles : ~Open(c)
  /\ stats.totalRuns = 2 /\ stats.successfulPosts = 1 /\ stats.failedPosts = 1

\* C33: a returned cycle that inserted a post has incremented
\* successfulPosts iff its row has status published, and has incremented
\* failedPosts when its row has status partial_failure.
C33_SuccessIffPublished ==
  \A c \in Cycles :
    (~Open(c) /\ lastOp.c = c /\ loc[c].returned.postId # 0)
      => /\ (stats.successfulPosts = loc[c].entry.stats.successfulPosts + 1)
              <=> (posts[loc[c].returned.postId].status = "published")
         /\ (posts[loc[c].returned.postId].status = "partial_failure")
              => stats.failedPosts = loc[c].entry.stats.failedPosts + 1

\* the rows of posts whose postedAt lies in the 24 hours that end now
RowsInWindow ==
  {i \in DOMAIN posts : posts[i].postedAt > now - quotaHours * HourMs}

\* C34: at every instant the rows of posts whose postedAt lies in the
\* trailing 24 hours, whatever their status, are at most maxPostsPerDay.
C34_DailyQuota == Cardinality(RowsInWindow) <= maxPostsPerDay

\* a second post went in after the first left the window, and a later state
\* has a row in the window that is not published
C34_Witness ==
  /\ Len(posts) = 2
  /\ RowsInWindow = {2}
  /\ posts[2].status \in {"pending", "failed", "partial_failure"}

\* publishWithRetry of cycle c has returned in real (non-mock) publishing
PublishedReal(c) == ~mockMode /\ pc[c] = "updatePostStatus"

\* platform p has a failed outcome in the first round of cycle c
FailedInRound1(c, p) == loc[c].okRound[p] # 1

C36_ProcessedOnlyAfterPublish ==
  /\ \A u \in Range(processedNews) :
       \E i \in DOMAIN posts :
         /\ posts[i].newsUrl = u
         /\ posts[i].status \in {"published", "partial_failure"}
  /\ \A c \in Cycles :
       /\ Open(c) => Len(processedNews) = loc[c].entry.processedNews
       /\ (~Open(c) /\ lastOp.c = c
             /\ lastOp # Op("markNewsAsProcessed", c, "ok"))
            => Len(processedNews) = loc[c].entry.processedNews

\* two URLs are marked, one of them after a partial failure
C36_Witness ==
  /\ Len(processedNews) = 2
  /\ \E i \in DOMAIN posts :
       /\ posts[i].status = "partial_failure"
       /\ posts[i].newsUrl \in Range(processedNews)

\* every call of updatePostStatus the returned cycle c made has succeeded:
\* the one after publishing did not throw (the cycle went on to mark the
\* URL) and the one of the error handler did not throw
UpdatesSucceeded(c) ==
  /\ "update" \in loc[c].returned.visited
       => "mark" \in loc[c].returned.visited
  /\ lastOp # Op("updatePostStatusFailed", c, "throw")

\* C37: the row of a cycle that inserted a post, has returned and whose
\* calls of updatePostStatus all succeeded has status published,
\* partial_failure or failed, not pending.
C37_NotPendingAfterReturn ==
  \A c \in Cycles :
    (/\ ~Open(c) /\ lastOp.c = c
     /\ loc[c].returned.postId # 0
     /\ UpdatesSucceeded(c))
      => posts[loc[c].returned.postId].status
           \in {"published", "partial_failure", "failed"}

\* a cycle with a failed platform wrote its status, failed to mark the URL
\* and its error handler wrote the status again
C37_Witness ==
  \E c \in Cycles :
    /\ lastOp = Op("updatePostStatusFailed", c, "ok")
    /\ UpdatesSucceeded(c)
    /\ ~AllSuccessful(loc[c].returned.results)
    /\ posts[loc[c].returned.postId].status = "failed"

\* cycle c is between the duplicate check that returned false and the
\* completion of its insertPost
AfterCheckBeforeInsert(c) ==
  pc[c] \in {"generateImageText", "createPostImage", "insertPost"}

\* C38: while a cycle is between its duplicate check, which returned false,
\* and the completion of its insertPost, no row of posts has its content
\* hash, so the insert does not fail on the UNIQUE constraint.
C38_NoConstraintFailureAfterCheck ==
  \A c \in Cycles :
    AfterCheckBeforeInsert(c) => ~UniqueViolation(loc[c].contentHash)

\* the second cycle waits for its insertPost, for the URL of the first
\* post and after the image was rendered
C38_Witness ==
  \E c \in Cycles :
    /\ pc[c] = "insertPost"
    /\ Len(posts) = 1
    /\ posts[1].newsUrl = loc[c].newsUrl
    /\ posts[1].contentHash # loc[c].contentHash

====
